---- MODULE Spec2Model ----
(***************************************************************************)
(* Model of src/xml/gl/enums.rs: the enum table (Enums), its keys and      *)
(* values, and pull_enums, the fold of one <enums> scope into the table.   *)
(*                                                                         *)
(* Text is a tuple of one-character strings ("0x1" is <<"0","x","1">>).    *)
(* A u32 is a pair of 16-bit limbs <<hi, lo>>, a u64 four limbs, most      *)
(* significant first, so that the full width of each type is kept.         *)
(* A panic of the Rust code is a final status of the fold that records the *)
(* panic's message.                                                        *)
(***************************************************************************)
EXTENDS Integers, Sequences, FiniteSets, TLC

\* ------------------------------------------------------------------ bounds
\* Number of events the stream can still yield at the start.
MaxEvents == 3

\* Longest run of digits in the generated value texts.
MaxDigits == 2

\* Number of events of the stream that is folded before entries are rendered.
MaxRenderEvents == 2

\* ------------------------------------------------------------ machine ints
LimbBase == 65536

RECURSIVE ZeroLimbs(_)
ZeroLimbs(n) == IF n = 0 THEN <<>> ELSE <<0>> \o ZeroLimbs(n - 1)

\* limbs * radix + carry, from the least significant limb; the carry out of
\* the most significant limb is the overflow the checked arithmetic reports.
RECURSIVE MulAddFrom(_, _, _, _)
MulAddFrom(limbs, i, radix, carry) ==
  IF i = 0 THEN [limbs |-> limbs, carry |-> carry]
  ELSE LET t == limbs[i] * radix + carry
       IN  MulAddFrom([limbs EXCEPT ![i] = t % LimbBase], i - 1, radix,
                      t \div LimbBase)

\* char::to_digit(radix): the digit's value, or -1 when it is no digit of
\* that radix.  Letters are accepted in both cases.
CharValue(c) ==
  CASE c = "0" -> 0 [] c = "1" -> 1 [] c = "2" -> 2 [] c = "3" -> 3
    [] c = "4" -> 4 [] c = "5" -> 5 [] c = "6" -> 6 [] c = "7" -> 7
    [] c = "8" -> 8 [] c = "9" -> 9
    [] c \in {"a", "A"} -> 10 [] c \in {"b", "B"} -> 11
    [] c \in {"c", "C"} -> 12 [] c \in {"d", "D"} -> 13
    [] c \in {"e", "E"} -> 14 [] c \in {"f", "F"} -> 15
    [] OTHER -> -1

to_digit(c, radix) ==
  LET d == CharValue(c) IN IF d >= 0 /\ d < radix THEN d ELSE -1

\* The digit loop of from_str_radix: Err on a non-digit or on overflow of the
\* n-limb accumulator.
RECURSIVE ParseDigits(_, _, _, _)
ParseDigits(digits, i, radix, acc) ==
  IF i > Len(digits) THEN [ok |-> TRUE, mag |-> acc]
  ELSE LET d == to_digit(digits[i], radix)
       IN  IF d < 0 THEN [ok |-> FALSE, mag |-> acc]
           ELSE LET r == MulAddFrom(acc, Len(acc), radix, d)
                IN  IF r.carry # 0 THEN [ok |-> FALSE, mag |-> acc]
                    ELSE ParseDigits(digits, i + 1, radix, r.limbs)

Tail2(s) == SubSeq(s, 3, Len(s))

\* <unsigned>::from_str_radix(src, radix) for an unsigned type of n limbs:
\* empty text, a lone sign, a '-' (never a sign of an unsigned type), a
\* non-digit and overflow are all Err; a leading '+' is accepted.
from_str_radix_unsigned(src, radix, n) ==
  IF Len(src) = 0 THEN [ok |-> FALSE, mag |-> ZeroLimbs(n)]
  ELSE IF Len(src) = 1 /\ src[1] \in {"+", "-"}
    THEN [ok |-> FALSE, mag |-> ZeroLimbs(n)]
  ELSE IF src[1] = "+" THEN ParseDigits(Tail(src), 1, radix, ZeroLimbs(n))
  ELSE ParseDigits(src, 1, radix, ZeroLimbs(n))

\* i32::from_str_radix(src, radix) followed by `as u32`: the magnitude must
\* fit i32 (at most 2^31 - 1, or 2^31 when negative); the result is the two's
\* complement bit pattern of the parsed integer.
TwosComplement32(mag) ==
  IF mag = <<0, 0>> THEN mag
  ELSE IF mag[2] = 0 THEN <<(LimbBase - mag[1]) % LimbBase, 0>>
  ELSE <<LimbBase - 1 - mag[1], LimbBase - mag[2]>>

from_str_radix_i32_as_u32(src, radix) ==
  IF Len(src) = 0 THEN [ok |-> FALSE, mag |-> <<0, 0>>]
  ELSE IF Len(src) = 1 /\ src[1] \in {"+", "-"}
    THEN [ok |-> FALSE, mag |-> <<0, 0>>]
  ELSE LET neg == src[1] = "-"
           digits == IF src[1] \in {"+", "-"} THEN Tail(src) ELSE src
           p == ParseDigits(digits, 1, radix, <<0, 0>>)
           half == LimbBase \div 2
       IN  IF ~p.ok THEN p
           ELSE IF neg
             THEN IF p.mag[1] < half \/ p.mag = <<half, 0>>
                    THEN [ok |-> TRUE, mag |-> TwosComplement32(p.mag)]
                    ELSE [ok |-> FALSE, mag |-> p.mag]
           ELSE IF p.mag[1] < half THEN p ELSE [ok |-> FALSE, mag |-> p.mag]

contains(s, c) == \E i \in 1..Len(s) : s[i] = c

\* ------------------------------------------------------------- data model
\* Variant of EnumKey whose identity is the name alone.
EnumKey_NameOnly(name, api) == [name |-> name, api |-> <<>>]

EnumKey(name, api) == [name |-> name, api |-> api]

\* Option<String>: None is the empty tuple wrapped, Some(s) is <<s>>.
None == <<>>
Some(x) == <<x>>

EnumValue(tag, num) == [tag |-> tag, num |-> num]

\* --------------------------------------------------------------- rendering
\* Length of the `GL_` prefix that the alternate form trims off.
PrefixLen == 3

UpperDigits == <<"0", "1", "2", "3", "4", "5", "6", "7", "8", "9", "A", "B", "C", "D", "E", "F">>

\* The four hex digits of one limb, and the digits of all limbs.
LimbHex(l) ==
  <<UpperDigits[(l \div 4096) + 1], UpperDigits[((l \div 256) % 16) + 1],
    UpperDigits[((l \div 16) % 16) + 1], UpperDigits[(l % 16) + 1]>>
RECURSIVE AllHex(_)
AllHex(limbs) == IF Len(limbs) = 0 THEN <<>> ELSE LimbHex(Head(limbs)) \o AllHex(Tail(limbs))
RECURSIVE StripZeros(_)
StripZeros(s) == IF Len(s) > 1 /\ Head(s) = "0" THEN StripZeros(Tail(s)) ELSE s

\* {:X}: upper-case hex without padding; {:08X}: padded with zeros to 8.
UpperHex(limbs) == StripZeros(AllHex(limbs))
UpperHex08(limbs) == AllHex(limbs)

S_pub_const == <<"p", "u", "b", " ", "c", "o", "n", "s", "t", " ">>
S_GLenum == <<":", " ", "G", "L", "e", "n", "u", "m", " ", "=", " ", "0", "x">>
S_GLbitfield ==
  <<":", " ", "G", "L", "b", "i", "t", "f", "i", "e", "l", "d", " ", "=", " ", "0", "x">>
S_u64 == <<":", " ", "u", "6", "4", " ", "=", " ", "0", "x">>

Rendered(text) == [panic |-> "", text |-> text]
RenderPanic(msg) == [panic |-> msg, text |-> <<>>]

\* The match on the value that writes the declaration.
WriteDecl(the_name, value) ==
  CASE value.tag = "Enum" ->
         Rendered(S_pub_const \o the_name \o S_GLenum \o UpperHex(value.num) \o <<";">>)
    [] value.tag = "Bitmask" ->
         Rendered(S_pub_const \o the_name \o S_GLbitfield \o UpperHex08(value.num)
                    \o <<";">>)
    [] value.tag = "ULL" ->
         Rendered(S_pub_const \o the_name \o S_u64 \o UpperHex(value.num) \o <<";">>)

\* Variants of fmt: one that slices as far as the name goes instead of
\* panicking, one that trims one character too few.
fmt_Truncating(key, value, alternate) ==
  IF alternate
    THEN WriteDecl(SubSeq(key.name, PrefixLen + 1, Len(key.name)), value)
    ELSE WriteDecl(key.name, value)

fmt_TrimShort(key, value, alternate) ==
  IF alternate
    THEN IF Len(key.name) < PrefixLen THEN RenderPanic("slice index")
         ELSE WriteDecl(SubSeq(key.name, PrefixLen, Len(key.name)), value)
    ELSE WriteDecl(key.name, value)

\* <EnumDisplay as Display>::fmt; `alternate` is f.alternate().  The slice
\* &name[3..] panics when the name has fewer than 3 bytes.
fmt(key, value, alternate) ==
  IF alternate
    THEN IF Len(key.name) < PrefixLen THEN RenderPanic("slice index")
         ELSE WriteDecl(SubSeq(key.name, PrefixLen + 1, Len(key.name)), value)
    ELSE WriteDecl(key.name, value)

\* -------------------------------------------------------- value resolution
\* The if/else chain that computes `val`: a panic is reported as
\* [panic |-> message], a value as [panic |-> "", val |-> EnumValue].
Panicked(msg) == [panic |-> msg, val |-> EnumValue("Enum", <<0, 0>>)]
Resolved(v) == [panic |-> "", val |-> v]

Unwrap(tag, p) ==
  IF p.ok THEN Resolved(EnumValue(tag, p.mag)) ELSE Panicked("unwrap on Err")

\* Variants of ResolveValue: the hex-marker test before the wide test, the
\* minus-sign test before the hex-marker test, the minus branch read in base
\* 10, and the last branch read in base 16.
ResolveValue_HexFirst(value, is_ull, is_bitmask) ==
  LET tag32 == IF is_bitmask THEN "Bitmask" ELSE "Enum"
  IN  IF contains(value, "x") \/ contains(value, "X")
        THEN IF Len(value) < 2 THEN Panicked("slice index")
             ELSE Unwrap(tag32, from_str_radix_unsigned(Tail2(value), 16, 2))
      ELSE IF is_ull
        THEN IF Len(value) < 2 THEN Panicked("slice index")
             ELSE Unwrap("ULL", from_str_radix_unsigned(Tail2(value), 16, 4))
      ELSE IF contains(value, "-")
        THEN Unwrap(tag32, from_str_radix_i32_as_u32(value, 16))
      ELSE Unwrap(tag32, from_str_radix_unsigned(value, 10, 2))

ResolveValue_MinusFirst(value, is_ull, is_bitmask) ==
  LET tag32 == IF is_bitmask THEN "Bitmask" ELSE "Enum"
  IN  IF is_ull
        THEN IF Len(value) < 2 THEN Panicked("slice index")
             ELSE Unwrap("ULL", from_str_radix_unsigned(Tail2(value), 16, 4))
      ELSE IF contains(value, "-")
        THEN Unwrap(tag32, from_str_radix_i32_as_u32(value, 16))
      ELSE IF contains(value, "x") \/ contains(value, "X")
        THEN IF Len(value) < 2 THEN Panicked("slice index")
             ELSE Unwrap(tag32, from_str_radix_unsigned(Tail2(value), 16, 2))
      ELSE Unwrap(tag32, from_str_radix_unsigned(value, 10, 2))

ResolveValue_MinusBase10(value, is_ull, is_bitmask) ==
  LET tag32 == IF is_bitmask THEN "Bitmask" ELSE "Enum"
  IN  IF is_ull
        THEN IF Len(value) < 2 THEN Panicked("slice index")
             ELSE Unwrap("ULL", from_str_radix_unsigned(Tail2(value), 16, 4))
      ELSE IF contains(value, "x") \/ contains(value, "X")
        THEN IF Len(value) < 2 THEN Panicked("slice index")
             ELSE Unwrap(tag32, from_str_radix_unsigned(Tail2(value), 16, 2))
      ELSE IF contains(value, "-")
        THEN Unwrap(tag32, from_str_radix_i32_as_u32(value, 10))
      ELSE Unwrap(tag32, from_str_radix_unsigned(value, 10, 2))

ResolveValue_LastBase16(value, is_ull, is_bitmask) ==
  LET tag32 == IF is_bitmask THEN "Bitmask" ELSE "Enum"
  IN  IF is_ull
        THEN IF Len(value) < 2 THEN Panicked("slice index")
             ELSE Unwrap("ULL", from_str_radix_unsigned(Tail2(value), 16, 4))
      ELSE IF contains(value, "x") \/ contains(value, "X")
        THEN IF Len(value) < 2 THEN Panicked("slice index")
             ELSE Unwrap(tag32, from_str_radix_unsigned(Tail2(value), 16, 2))
      ELSE IF contains(value, "-")
        THEN Unwrap(tag32, from_str_radix_i32_as_u32(value, 16))
      ELSE Unwrap(tag32, from_str_radix_unsigned(value, 16, 2))

ResolveValue(value, is_ull, is_bitmask) ==
  LET tag32 == IF is_bitmask THEN "Bitmask" ELSE "Enum"
  IN  IF is_ull
        THEN IF Len(value) < 2 THEN Panicked("slice index")
             ELSE Unwrap("ULL", from_str_radix_unsigned(Tail2(value), 16, 4))
      ELSE IF contains(value, "x") \/ contains(value, "X")
        THEN IF Len(value) < 2 THEN Panicked("slice index")
             ELSE Unwrap(tag32, from_str_radix_unsigned(Tail2(value), 16, 2))
      ELSE IF contains(value, "-")
        THEN Unwrap(tag32, from_str_radix_i32_as_u32(value, 16))
      ELSE Unwrap(tag32, from_str_radix_unsigned(value, 10, 2))

\* ------------------------------------------------------------ input space
\* Texts the events of the modelled stream are built from.
GL_A == <<"G", "L", "_", "A">>
GL_B == <<"G", "L", "_", "B">>
T_gl == <<"g", "l">>
T_gles2 == <<"g", "l", "e", "s", "2">>
T_ull == <<"u", "l", "l">>
T_u == <<"u">>
T_0x1 == <<"0", "x", "1">>
T_2 == <<"2">>
T_0xG == <<"0", "x", "G">>
T_x == <<"x">>
T_note == <<"n">>

Attr(k, v) == <<k, v>>

\* Attribute lists of <enum .../> entries, as the attribute splitter yields
\* them: ordered (key, value) pairs, duplicates kept.
PlainAttrs ==
  { <<Attr("name", n), Attr("value", v)>> : n \in {GL_A, GL_B}, v \in {T_0x1, T_2} }

ApiAttrs ==
  { <<Attr("name", GL_A), Attr("value", v), Attr("api", T_gl)>> : v \in {T_0x1, T_2} }

OtherAttrs ==
  { <<Attr("value", T_2), Attr("name", GL_A)>>,
    <<Attr("name", GL_A), Attr("value", T_0x1), Attr("type", T_ull)>>,
    <<Attr("type", T_ull), Attr("value", T_0x1), Attr("name", GL_B)>>,
    <<Attr("name", GL_A), Attr("value", T_0x1), Attr("type", T_u)>>,
    <<Attr("name", GL_B), Attr("alias", GL_A), Attr("value", T_2),
      Attr("comment", T_note)>>,
    \* an attribute key outside the recognized set, first, middle and last
    <<Attr("group", T_note), Attr("name", GL_A), Attr("value", T_0x1)>>,
    <<Attr("name", GL_B), Attr("group", T_note), Attr("value", T_2)>>,
    <<Attr("name", GL_B), Attr("value", T_0x1), Attr("group", T_note)>>,
    <<Attr("group", T_note)>>,
    \* repeated keys
    <<Attr("name", GL_A), Attr("name", GL_B), Attr("value", T_0x1)>>,
    <<Attr("name", GL_A), Attr("value", T_0x1), Attr("value", T_2)>>,
    <<Attr("type", T_ull), Attr("type", T_u), Attr("name", GL_A),
      Attr("value", T_0x1)>>,
    <<Attr("name", GL_A), Attr("api", T_gles2), Attr("api", T_gl),
      Attr("value", T_2)>>,
    \* missing required attributes, unparsable numbers
    <<Attr("value", T_0x1)>>,
    <<Attr("name", GL_A)>>,
    <<Attr("name", GL_A), Attr("value", T_0xG)>>,
    <<Attr("name", GL_B), Attr("value", T_x)>> }

EnumAttrs == PlainAttrs \cup ApiAttrs \cup OtherAttrs

\* Events of the XmlIterator.
Event(kind, name, attrs) == [kind |-> kind, name |-> name, attrs |-> attrs]

EnumEvents == { Event("EmptyTag", "enum", a) : a \in EnumAttrs }

UnusedEvents ==
  { Event("EmptyTag", "unused", <<>>),
    Event("EmptyTag", "unused", <<Attr("start", T_0x1), Attr("group", T_note)>>) }

StrayEvents ==
  { Event("StartTag", "enum", <<Attr("name", GL_A), Attr("value", T_0x1)>>),
    Event("StartTag", "enums", <<>>),
    Event("EndTag", "enum", <<>>),
    Event("EmptyTag", "enums", <<>>),
    Event("EmptyTag", "other", <<Attr("name", GL_B), Attr("value", T_2)>>) }

EndEnums == Event("EndTag", "enums", <<>>)

Events == EnumEvents \cup UnusedEvents \cup StrayEvents \cup {EndEnums}

NoEvent == Event("", "", <<>>)

Names == {GL_A, GL_B}

\* ------------------------------------------------------------- pull_enums
\* The locals of the "enum" arm before the attribute loop.
EntryLocals == [name |-> None, value |-> None, api |-> None, is_ull |-> FALSE,
                panic |-> ""]

\* Variant of CollectAttrs in which the wildcard arm ignores the attribute.
RECURSIVE CollectAttrs_Lenient(_, _, _)
CollectAttrs_Lenient(attrs, i, acc) ==
  IF i > Len(attrs) THEN acc
  ELSE LET k == attrs[i][1]
           v == attrs[i][2]
       IN  CASE k = "name" -> CollectAttrs_Lenient(attrs, i + 1, [acc EXCEPT !.name = Some(v)])
             [] k = "value" -> CollectAttrs_Lenient(attrs, i + 1, [acc EXCEPT !.value = Some(v)])
             [] k = "type" -> CollectAttrs_Lenient(attrs, i + 1, [acc EXCEPT !.is_ull = (v = T_ull)])
             [] k = "api" -> CollectAttrs_Lenient(attrs, i + 1, [acc EXCEPT !.api = Some(v)])
             [] OTHER -> CollectAttrs_Lenient(attrs, i + 1, acc)

\* Variant of CollectAttrs in which name, value and api keep the first value
\* they were given.
RECURSIVE CollectAttrs_KeepFirst(_, _, _)
CollectAttrs_KeepFirst(attrs, i, acc) ==
  IF i > Len(attrs) THEN acc
  ELSE LET k == attrs[i][1]
           v == attrs[i][2]
           keep(old) == IF old = None THEN Some(v) ELSE old
       IN  CASE k = "name" ->
                  CollectAttrs_KeepFirst(attrs, i + 1, [acc EXCEPT !.name = keep(@)])
             [] k = "value" ->
                  CollectAttrs_KeepFirst(attrs, i + 1, [acc EXCEPT !.value = keep(@)])
             [] k = "alias" -> CollectAttrs_KeepFirst(attrs, i + 1, acc)
             [] k = "comment" -> CollectAttrs_KeepFirst(attrs, i + 1, acc)
             [] k = "type" ->
                  CollectAttrs_KeepFirst(attrs, i + 1, [acc EXCEPT !.is_ull = (v = T_ull)])
             [] k = "api" ->
                  CollectAttrs_KeepFirst(attrs, i + 1, [acc EXCEPT !.api = keep(@)])
             [] OTHER -> [acc EXCEPT !.panic = "unexpected key"]

\* The `for (k, v) in AttributeIterator::new(attrs)` loop: each recognized key
\* assigns its local, an unrecognized key panics at once.
RECURSIVE CollectAttrs(_, _, _)
CollectAttrs(attrs, i, acc) ==
  IF i > Len(attrs) THEN acc
  ELSE LET k == attrs[i][1]
           v == attrs[i][2]
       IN  CASE k = "name" -> CollectAttrs(attrs, i + 1, [acc EXCEPT !.name = Some(v)])
             [] k = "value" -> CollectAttrs(attrs, i + 1, [acc EXCEPT !.value = Some(v)])
             [] k = "alias" -> CollectAttrs(attrs, i + 1, acc)
             [] k = "comment" -> CollectAttrs(attrs, i + 1, acc)
             [] k = "type" -> CollectAttrs(attrs, i + 1, [acc EXCEPT !.is_ull = (v = T_ull)])
             [] k = "api" -> CollectAttrs(attrs, i + 1, [acc EXCEPT !.api = Some(v)])
             [] OTHER -> [acc EXCEPT !.panic = "unexpected key"]

\* Variant of set_insert that drops the element.
set_insert_Noop(s, x) == s

\* HashMap::contains_key, HashMap::insert (insert overwrites), HashSet::insert.
contains_key(m, k) == k \in DOMAIN m
map_insert(m, k, v) == [x \in DOMAIN m \cup {k} |-> IF x = k THEN v ELSE m[x]]
set_insert(s, x) == s \cup {x}

\* What a panic carries: the message and, for "key overwrite", the key and
\* the old and new values formatted into it.
NoValue == EnumValue("", <<>>)
NoKey == EnumKey(<<>>, None)
PanicInfo(msg, key, old, new) == [msg |-> msg, key |-> key, old |-> old, new |-> new]
NoPanic == PanicInfo("", NoKey, NoValue, NoValue)

Outcome(p, tbl, grp) == [panic |-> p, enums |-> tbl, group |-> grp]

\* Variants of InsertEntry: one inserts without looking the key up, one
\* skips a present key without comparing the values, one records the name in
\* the group before looking the key up.
InsertEntry_Overwrite(key, val, tbl, grp, hasGroup) ==
  Outcome(NoPanic, map_insert(tbl, key, val),
          IF hasGroup THEN set_insert(grp, key.name) ELSE grp)

InsertEntry_NoCompare(key, val, tbl, grp, hasGroup) ==
  IF contains_key(tbl, key)
    THEN Outcome(NoPanic, tbl, grp)
    ELSE Outcome(NoPanic, map_insert(tbl, key, val),
                 IF hasGroup THEN set_insert(grp, key.name) ELSE grp)

InsertEntry_GroupFirst(key, val, tbl, grp, hasGroup) ==
  LET g == IF hasGroup THEN set_insert(grp, key.name) ELSE grp
  IN  IF contains_key(tbl, key)
        THEN IF tbl[key] # val
               THEN Outcome(PanicInfo("key overwrite", key, tbl[key], val), tbl, grp)
               ELSE Outcome(NoPanic, tbl, g)
        ELSE Outcome(NoPanic, map_insert(tbl, key, val), g)

\* Two more variants of InsertEntry: one compares the numbers of the old and
\* new value but not their variants, one inserts the name into the caller's
\* set whether or not the call passed it.
InsertEntry_CompareBits(key, val, tbl, grp, hasGroup) ==
  IF contains_key(tbl, key)
    THEN IF tbl[key].num # val.num
           THEN Outcome(PanicInfo("key overwrite", key, tbl[key], val), tbl, grp)
           ELSE Outcome(NoPanic, tbl, grp)
    ELSE Outcome(NoPanic, map_insert(tbl, key, val),
                 IF hasGroup THEN set_insert(grp, key.name) ELSE grp)

InsertEntry_IgnoreOption(key, val, tbl, grp, hasGroup) ==
  IF contains_key(tbl, key)
    THEN IF tbl[key] # val
           THEN Outcome(PanicInfo("key overwrite", key, tbl[key], val), tbl, grp)
           ELSE Outcome(NoPanic, tbl, grp)
    ELSE Outcome(NoPanic, map_insert(tbl, key, val), set_insert(grp, key.name))

\* The lookup, comparison and insertion that end the "enum" arm.
InsertEntry(key, val, tbl, grp, hasGroup) ==
  IF contains_key(tbl, key)
    THEN LET old == tbl[key]
             new == val
         IN  IF old # new
               THEN Outcome(PanicInfo("key overwrite", key, old, new), tbl, grp)
               ELSE Outcome(NoPanic, tbl, grp)
    ELSE Outcome(NoPanic, map_insert(tbl, key, val),
                 IF hasGroup THEN set_insert(grp, key.name) ELSE grp)

\* The whole `EmptyTag { name: "enum", attrs }` arm.
EnumArm(attrs, tbl, grp, hasGroup, is_bitmask) ==
  LET loc == CollectAttrs(attrs, 1, EntryLocals)
      fail(msg) == Outcome(PanicInfo(msg, NoKey, NoValue, NoValue), tbl, grp)
  IN  IF loc.panic # "" THEN fail(loc.panic)
      ELSE IF loc.name = None THEN fail("unwrap on None")
      ELSE IF loc.value = None THEN fail("unwrap on None")
      ELSE LET r == ResolveValue(loc.value[1], loc.is_ull, is_bitmask)
           IN  IF r.panic # "" THEN fail(r.panic)
               ELSE InsertEntry(EnumKey(loc.name[1], loc.api), r.val, tbl, grp,
                                hasGroup)

\* Variants of the patterns: a close tag of any name, a tag named "enum" of
\* any kind, an "unused" tag only when it has no attributes.
IsEndEnums_AnyName(ev) == ev.kind = "EndTag"
IsEnumEntry_AnyKind(ev) == ev.name = "enum"
IsUnused_NoAttrs(ev) == ev.kind = "EmptyTag" /\ ev.name = "unused" /\ ev.attrs = <<>>

\* The patterns of the match on the pulled event.
IsEndEnums(ev) == ev.kind = "EndTag" /\ ev.name = "enums"
IsEnumEntry(ev) == ev.kind = "EmptyTag" /\ ev.name = "enum"
IsUnused(ev) == ev.kind = "EmptyTag" /\ ev.name = "unused"

\* The last rendering: nothing rendered yet, or fmt's arguments and result.
Output(done, key, alternate, res) ==
  [done |-> done, key |-> key, alternate |-> alternate, panic |-> res.panic,
   text |-> res.text]
NoOutput == Output(FALSE, NoKey, FALSE, RenderPanic(""))

\* ------------------------------------------------------------------ state
VARIABLES
  enums,       \* Enums.0: the table, a function from EnumKey to EnumValue
  group,       \* the caller's HashSet<String>
  hasGroup,    \* whether the call passes Some(&mut group)
  is_bitmask,  \* the call's is_bitmask argument
  remaining,   \* number of events the iterator `it` still yields
  cur,         \* the event last pulled from `it` (NoEvent: none / exhausted)
  pc,          \* "idle", "running", "Some", "None" or "panic"
  panic,       \* the payload of the panic, NoPanic if none
  enums0,      \* history: the table when the running fold was called
  group0,      \* history: the group when the running fold was called
  out          \* the last rendering: its arguments and what fmt produced

vars == <<enums, group, hasGroup, is_bitmask, remaining, cur, pc, panic, enums0,
          group0, out>>

EmptyTable == [k \in {} |-> NoValue]

Init ==
  /\ enums = EmptyTable
  /\ group = {}
  /\ hasGroup = FALSE
  /\ is_bitmask = FALSE
  /\ remaining \in 0..MaxEvents
  /\ cur = NoEvent
  /\ pc = "idle"
  /\ panic = NoPanic
  /\ enums0 = EmptyTable
  /\ group0 = {}
  /\ out = NoOutput

\* The driver calls pull_enums(it, enums, is_bitmask, group) on the shared
\* table: with Some(&mut g) for a set g of its choosing, or with None, which
\* leaves the set it holds alone.
Call(b, h, g) ==
  /\ pc \in {"idle", "Some", "None"}
  /\ ~h => g = group
  /\ pc' = "running"
  /\ is_bitmask' = b
  /\ hasGroup' = h
  /\ group' = g
  /\ enums0' = enums
  /\ group0' = g
  /\ cur' = NoEvent
  /\ UNCHANGED <<enums, remaining, panic, out>>

\* Variant of NextNone that reports success at the end of the stream.
NextNone_Success ==
  /\ pc = "running"
  /\ remaining = 0
  /\ pc' = "Some"
  /\ cur' = NoEvent
  /\ UNCHANGED <<enums, group, hasGroup, is_bitmask, remaining, panic, enums0, group0,
                 out>>

\* it.next()? on an exhausted iterator: the function returns None.
NextNone ==
  /\ pc = "running"
  /\ remaining = 0
  /\ pc' = "None"
  /\ cur' = NoEvent
  /\ UNCHANGED <<enums, group, hasGroup, is_bitmask, remaining, panic, enums0, group0,
                 out>>

Pull(ev) ==
  /\ pc = "running"
  /\ remaining > 0
  /\ remaining' = remaining - 1
  /\ cur' = ev
  /\ UNCHANGED out

\* EndTag { name: "enums" } => return Some(())
EndTagEnums(ev) ==
  /\ Pull(ev)
  /\ IsEndEnums(ev)
  /\ pc' = "Some"
  /\ UNCHANGED <<enums, group, hasGroup, is_bitmask, panic, enums0, group0>>

\* Variant of EmptyTagEnum that undoes the fold's insertions when the entry
\* panics.
EmptyTagEnum_Rollback(ev) ==
  /\ Pull(ev)
  /\ ~IsEndEnums(ev)
  /\ IsEnumEntry(ev)
  /\ LET o == EnumArm(ev.attrs, enums, group, hasGroup, is_bitmask)
     IN  /\ enums' = IF o.panic = NoPanic THEN o.enums ELSE enums0
         /\ group' = IF o.panic = NoPanic THEN o.group ELSE group0
         /\ panic' = o.panic
         /\ pc' = IF o.panic = NoPanic THEN "running" ELSE "panic"
  /\ UNCHANGED <<hasGroup, is_bitmask, enums0, group0>>

\* EmptyTag { name: "enum", attrs } => { ... }
EmptyTagEnum(ev) ==
  /\ Pull(ev)
  /\ ~IsEndEnums(ev)
  /\ IsEnumEntry(ev)
  /\ LET o == EnumArm(ev.attrs, enums, group, hasGroup, is_bitmask)
     IN  /\ enums' = o.enums
         /\ group' = o.group
         /\ panic' = o.panic
         /\ pc' = IF o.panic = NoPanic THEN "running" ELSE "panic"
  /\ UNCHANGED <<hasGroup, is_bitmask, enums0, group0>>

\* EmptyTag { name: "unused", attrs } => { let _ = attrs; }
EmptyTagUnused(ev) ==
  /\ Pull(ev)
  /\ ~IsEndEnums(ev)
  /\ ~IsEnumEntry(ev)
  /\ IsUnused(ev)
  /\ UNCHANGED <<enums, group, hasGroup, is_bitmask, pc, panic, enums0, group0>>

\* other => panic!("unexpected> {:?}", other)
OtherEvent(ev) ==
  /\ Pull(ev)
  /\ ~IsEndEnums(ev)
  /\ ~IsEnumEntry(ev)
  /\ ~IsUnused(ev)
  /\ pc' = "panic"
  /\ panic' = PanicInfo("unexpected", NoKey, NoValue, NoValue)
  /\ UNCHANGED <<enums, group, hasGroup, is_bitmask, enums0, group0>>

Step == \E ev \in Events :
  EndTagEnums(ev) \/ EmptyTagEnum(ev) \/ EmptyTagUnused(ev) \/ OtherEvent(ev)

Next ==
  \/ \E b \in BOOLEAN, h \in BOOLEAN, g \in SUBSET Names : Call(b, h, g)
  \/ NextNone
  \/ Step

Spec == Init /\ [][Next]_vars

\* The loop of pull_enums runs without suspension: a running fold takes its
\* next step.
FairSpec == Spec /\ WF_vars(NextNone \/ Step)

\* ------------------------------------------------- one entry, many values
\* Value texts for the resolution of `val`: runs of digits, bare and behind
\* the prefixes "0x", "0X" and "-", and texts at the edges of the number
\* types and of the branches.
DigitAlphabet == {"0", "1", "9", "a", "F"}
DigitRuns == UNION { [1..n -> DigitAlphabet] : n \in 1..MaxDigits }
EdgeTexts ==
  { <<>>, <<"x">>, <<"-">>, <<"0", "x">>, <<"0", "x", "G">>, <<"1", "2", "G">>,
    <<"-", "x", "1">>, <<"1", "x", "2">>, <<"1", "-", "2">>, <<"+", "5">>,
    <<"0", "x", "+", "1">>, <<"-", "-", "1">>,
    <<"6", "5", "5", "3", "6">>,
    <<"4", "2", "9", "4", "9", "6", "7", "2", "9", "5">>,
    <<"4", "2", "9", "4", "9", "6", "7", "2", "9", "6">>,
    <<"0", "x", "1", "0", "0", "0", "0">>,
    <<"0", "x", "F", "F", "F", "F", "F", "F", "F", "F">>,
    <<"0", "x", "0", "0", "0", "0", "0", "0", "0", "1", "2">>,
    <<"0", "x", "1", "0", "0", "0", "0", "0", "0", "0", "0">>,
    <<"0", "x", "8", "0", "0", "0", "0", "0", "0", "0", "0", "0", "0", "0", "0", "0",
      "0", "0">>,
    <<"0", "x", "F", "F", "F", "F", "F", "F", "F", "F", "F", "F", "F", "F", "F", "F",
      "F", "F">>,
    <<"0", "x", "1", "0", "0", "0", "0", "0", "0", "0", "0", "0", "0", "0", "0", "0",
      "0", "0", "0">>,
    <<"-", "7", "F", "F", "F", "F", "F", "F", "F">>,
    <<"-", "8", "0", "0", "0", "0", "0", "0", "0">>,
    <<"-", "8", "0", "0", "0", "0", "0", "0", "1">> }
ValueTexts ==
  DigitRuns \cup EdgeTexts
    \cup { p \o d : p \in {<<"0", "x">>, <<"0", "X">>, <<"-">>}, d \in DigitRuns }

\* One entry named GL_A per value text: without a type, with type "ull" after
\* and before the value, and with another type.
ResolveAttrs ==
  UNION { { <<Attr("name", GL_A), Attr("value", t)>>,
            <<Attr("name", GL_A), Attr("value", t), Attr("type", T_ull)>>,
            <<Attr("type", T_ull), Attr("name", GL_A), Attr("value", t)>>,
            <<Attr("name", GL_A), Attr("value", t), Attr("type", T_u)>> }
          : t \in ValueTexts }
ResolveEvents == { Event("EmptyTag", "enum", a) : a \in ResolveAttrs }

\* A fold over a stream of one such entry, into the empty table.
InitResolve ==
  /\ enums = EmptyTable
  /\ group = {}
  /\ hasGroup = FALSE
  /\ is_bitmask = FALSE
  /\ remaining = 1
  /\ cur = NoEvent
  /\ pc = "idle"
  /\ panic = NoPanic
  /\ enums0 = EmptyTable
  /\ group0 = {}
  /\ out = NoOutput

NextResolve ==
  \/ \E b \in BOOLEAN : Call(b, FALSE, group)
  \/ \E ev \in ResolveEvents : EmptyTagEnum(ev)
  \/ NextNone

SpecResolve == InitResolve /\ [][NextResolve]_vars

\* ------------------------------------------------------ folding, rendering
\* Names of several lengths, shorter than the prefix, as long, and longer.
G_ == <<"G">>
GL == <<"G", "L">>
GL_ == <<"G", "L", "_">>
GL_AB == <<"G", "L", "_", "A", "B">>
RenderNames == {G_, GL, GL_, GL_A, GL_AB}
RenderTexts ==
  { <<"0">>, <<"0", "x", "4">>, <<"0", "x", "1", "0", "0">>,
    <<"0", "x", "a", "b", "c", "d", "e", "f", "1", "2">> }
T_wide == <<"0", "x", "8", "0", "0", "0", "0", "0", "0", "0", "0", "0", "0", "0", "0", "0",
            "0", "0">>
RenderAttrs ==
  { <<Attr("name", n), Attr("value", t)>> : n \in RenderNames, t \in RenderTexts }
    \cup { <<Attr("name", n), Attr("value", T_wide), Attr("type", T_ull)>> :
             n \in RenderNames }
RenderEvents == { Event("EmptyTag", "enum", a) : a \in RenderAttrs }

\* The driver formats one entry of the table, plainly ("{}") or in the
\* alternate form ("{:#}"), once no fold is running.
Render(key, alternate) ==
  /\ pc \in {"Some", "None"}
  /\ key \in DOMAIN enums
  /\ out' = Output(TRUE, key, alternate, fmt(key, enums[key], alternate))
  /\ UNCHANGED <<enums, group, hasGroup, is_bitmask, remaining, cur, pc, panic, enums0,
                 group0>>

RenderEntry == \E k \in DOMAIN enums, a \in BOOLEAN : Render(k, a)

InitRender ==
  /\ enums = EmptyTable
  /\ group = {}
  /\ hasGroup = FALSE
  /\ is_bitmask = FALSE
  /\ remaining \in 1..MaxRenderEvents
  /\ cur = NoEvent
  /\ pc = "idle"
  /\ panic = NoPanic
  /\ enums0 = EmptyTable
  /\ group0 = {}
  /\ out = NoOutput

NextRender ==
  \/ \E b \in BOOLEAN : Call(b, FALSE, group)
  \/ \E ev \in RenderEvents : EmptyTagEnum(ev)
  \/ EndTagEnums(EndEnums)
  \/ NextNone
  \/ RenderEntry

SpecRender == InitRender /\ [][NextRender]_vars

\* ============================================================ properties
\* What an <enum .../> event asks for, read off its attributes.
RecognizedKeys == {"name", "value", "type", "api", "alias", "comment"}
HasUnrecognizedKey(ev) == \E i \in 1..Len(ev.attrs) : ev.attrs[i][1] \notin RecognizedKeys
Locals(ev) == CollectAttrs(ev.attrs, 1, EntryLocals)
WellFormed(ev, b) ==
  /\ Locals(ev).panic = ""
  /\ Locals(ev).name # None
  /\ Locals(ev).value # None
  /\ ResolveValue(Locals(ev).value[1], Locals(ev).is_ull, b).panic = ""
EntryKey(ev) == [name |-> Locals(ev).name[1], api |-> Locals(ev).api]
EntryVal(ev, b) == ResolveValue(Locals(ev).value[1], Locals(ev).is_ull, b).val

\* The step pulls an event (cur') inside a running fold.
Pulled == pc = "running" /\ remaining' = remaining - 1
PulledEnum == Pulled /\ cur'.kind = "EmptyTag" /\ cur'.name = "enum"
PulledUnused == Pulled /\ cur'.kind = "EmptyTag" /\ cur'.name = "unused"
PulledClose == Pulled /\ cur'.kind = "EndTag" /\ cur'.name = "enums"

\* C1: write-once table.  In every step, of any fold on the table, each key
\* of the table stays in it with the value it had; and an enum entry whose
\* key is already in the table is either skipped (its value equals the stored
\* one, the fold goes on) or makes the fold fail.
C1_WriteOnce ==
  [][ /\ \A k \in DOMAIN enums : k \in DOMAIN enums' /\ enums'[k] = enums[k]
      /\ (PulledEnum /\ WellFormed(cur', is_bitmask) /\ EntryKey(cur') \in DOMAIN enums)
           => \/ pc' = "panic"
              \/ /\ pc' = "running"
                 /\ EntryVal(cur', is_bitmask) = enums[EntryKey(cur')]
                 /\ enums' = enums ]_vars

\* A later fold met an entry for a key an earlier fold inserted, and went on.
C1_Witness ==
  /\ pc = "running"
  /\ cur.kind = "EmptyTag" /\ cur.name = "enum"
  /\ WellFormed(cur, is_bitmask)
  /\ EntryKey(cur) \in DOMAIN enums0
  /\ enums[EntryKey(cur)] = enums0[EntryKey(cur)]

\* C2: conflict detection.  An entry that resolves to key K and value B while
\* the table maps K to A # B makes the fold panic with "key overwrite"
\* carrying K, A and B, and the table still maps K to A.
C2_Conflict ==
  [][ (/\ PulledEnum /\ WellFormed(cur', is_bitmask)
       /\ EntryKey(cur') \in DOMAIN enums
       /\ enums[EntryKey(cur')] # EntryVal(cur', is_bitmask))
      => /\ pc' = "panic"
         /\ panic' = PanicInfo("key overwrite", EntryKey(cur'),
                               enums[EntryKey(cur')], EntryVal(cur', is_bitmask))
         /\ enums' = enums
         /\ enums'[EntryKey(cur')] = panic'.old ]_vars

C2_Witness ==
  /\ pc = "panic"
  /\ panic.msg = "key overwrite"
  /\ panic.old # panic.new
  /\ enums[panic.key] = panic.old

SameNameOtherApi(ev, tbl) ==
  { k \in DOMAIN tbl : k.name = Locals(ev).name[1] /\ k.api # Locals(ev).api }
C4_KeyIsPair ==
  [][ (/\ PulledEnum /\ WellFormed(cur', is_bitmask)
       /\ SameNameOtherApi(cur', enums) # {}
       /\ ~\E k \in DOMAIN enums :
             k.name = Locals(cur').name[1] /\ k.api = Locals(cur').api)
      => /\ pc' = "running"
         /\ panic' = NoPanic
         /\ DOMAIN enums' = DOMAIN enums \cup
              {[name |-> Locals(cur').name[1], api |-> Locals(cur').api]}
         /\ enums'[[name |-> Locals(cur').name[1], api |-> Locals(cur').api]]
              = EntryVal(cur', is_bitmask)
         /\ \A k \in SameNameOtherApi(cur', enums) : enums'[k] = enums[k] ]_vars

\* The table holds one name under two apis with two values.
C4_Witness ==
  \E k1 \in DOMAIN enums, k2 \in DOMAIN enums :
    /\ k1.name = k2.name
    /\ k1.api = None /\ k2.api # None
    /\ enums[k1] # enums[k2]

C6_UnusedIgnored ==
  [][ PulledUnused
      => /\ enums' = enums
         /\ group' = group
         /\ panic' = NoPanic
         /\ pc' = "running" ]_vars

C6_Witness ==
  /\ pc = "running"
  /\ cur.kind = "EmptyTag" /\ cur.name = "unused"
  /\ cur.attrs # <<>>
  /\ enums # EmptyTable

\* C7: an enum entry with an attribute key outside name, value, type, api,
\* alias and comment makes the fold panic with "unexpected key", wherever the
\* key stands among the attributes, and inserts nothing into table or group.
C7_UnrecognizedAttribute ==
  [][ (PulledEnum /\ HasUnrecognizedKey(cur'))
      => /\ pc' = "panic"
         /\ panic'.msg = "unexpected key"
         /\ enums' = enums
         /\ group' = group ]_vars

\* The unrecognized key came last, after a name and a value that would have
\* made a new entry.
C7_Witness ==
  /\ pc = "panic"
  /\ panic.msg = "unexpected key"
  /\ Len(cur.attrs) = 3
  /\ cur.attrs[1][1] = "name" /\ cur.attrs[2][1] = "value"
  /\ cur.attrs[3][1] \notin RecognizedKeys
  /\ [name |-> cur.attrs[1][2], api |-> None] \notin DOMAIN enums

\* C8: termination on the closing marker.  A running fold always comes to an
\* end (the stream is finite); it returns Some(()) only by pulling a close
\* tag named "enums", it returns Some(()) whenever it pulls one, and until
\* then it has gone on only over self-closing "enum" and "unused" tags; once
\* it has returned, it pulls nothing more from the stream.
C8_Termination ==
  /\ (pc = "running") ~> (pc # "running")
  /\ [][ /\ (pc = "running" /\ pc' = "Some") => PulledClose
         /\ PulledClose => pc' = "Some"
         /\ (Pulled /\ pc' = "running") =>
               (cur'.kind = "EmptyTag" /\ cur'.name \in {"enum", "unused"})
         /\ pc # "running" => remaining' = remaining ]_vars

\* The fold returned Some(()) after inserting entries, with events left in
\* the stream.
C8_Witness ==
  /\ pc = "Some"
  /\ cur = EndEnums
  /\ remaining > 0
  /\ DOMAIN enums # DOMAIN enums0

\* C9: end of input.  A running fold whose stream is exhausted returns None,
\* the failure result of the function, and never Some(()); a fold that
\* returned Some(()) pulled the close tag.
C9_EndOfInput ==
  /\ (pc = "running" /\ remaining = 0) ~> (pc = "None")
  /\ [][ (pc = "running" /\ remaining = 0) => (pc' = "None" /\ cur' = NoEvent) ]_vars
  /\ [](pc = "Some" => cur = EndEnums)

\* The stream ran out after the fold had inserted an entry.
C9_Witness ==
  /\ pc = "None"
  /\ remaining = 0
  /\ DOMAIN enums # DOMAIN enums0

\* C10: unexpected tags.  A pulled event that is neither a self-closing
\* "enum", nor a self-closing "unused", nor the close tag "enums" makes the
\* fold panic with "unexpected", with table and group as they were; after a
\* panic nothing more is pulled.
ExpectedShape(ev) ==
  \/ ev.kind = "EmptyTag" /\ ev.name \in {"enum", "unused"}
  \/ ev.kind = "EndTag" /\ ev.name = "enums"
C10_UnexpectedTag ==
  [][ /\ (Pulled /\ ~ExpectedShape(cur'))
         => /\ pc' = "panic"
            /\ panic'.msg = "unexpected"
            /\ enums' = enums
            /\ group' = group
      /\ pc = "panic" => (remaining' = remaining /\ pc' = "panic") ]_vars

\* An open tag named "enum" stopped the fold with events left in the stream.
C10_Witness ==
  /\ pc = "panic"
  /\ panic.msg = "unexpected"
  /\ cur.kind = "StartTag" /\ cur.name = "enum"
  /\ remaining > 0
  /\ enums # EmptyTable

\* C16: repeated attribute keys.  The occurrences of one key among an
\* entry's attributes, read independently of the attribute loop.
Occurrences(attrs, k) == { i \in 1..Len(attrs) : attrs[i][1] = k }
FirstOf(attrs, k) ==
  attrs[CHOOSE i \in Occurrences(attrs, k) : \A j \in Occurrences(attrs, k) : i <= j][2]
LastOf(attrs, k) ==
  attrs[CHOOSE i \in Occurrences(attrs, k) : \A j \in Occurrences(attrs, k) : i >= j][2]
HasRepeatedKey(attrs) ==
  \E k \in {"name", "value", "api", "type"} : Cardinality(Occurrences(attrs, k)) > 1
\* The fold went on after the entry cur: the entry was resolved and its key
\* is in the table.
Processed == pc = "running" /\ cur.kind = "EmptyTag" /\ cur.name = "enum"

KeyOfFirst(attrs) ==
  [name |-> FirstOf(attrs, "name"),
   api |-> IF Occurrences(attrs, "api") = {} THEN None ELSE Some(FirstOf(attrs, "api"))]
ValOfFirst(attrs, b) ==
  ResolveValue(FirstOf(attrs, "value"),
               Occurrences(attrs, "type") # {} /\ FirstOf(attrs, "type") = T_ull, b).val
KeyOfLast(attrs) ==
  [name |-> LastOf(attrs, "name"),
   api |-> IF Occurrences(attrs, "api") = {} THEN None ELSE Some(LastOf(attrs, "api"))]
ValOfLast(attrs, b) ==
  ResolveValue(LastOf(attrs, "value"),
               Occurrences(attrs, "type") # {} /\ LastOf(attrs, "type") = T_ull, b).val

\* C16 as claimed: when an entry repeats an attribute key, the first
\* occurrence of each key determines the entry's key and value.
C16_FirstSeenWins ==
  (Processed /\ HasRepeatedKey(cur.attrs))
    => /\ KeyOfFirst(cur.attrs) \in DOMAIN enums
       /\ enums[KeyOfFirst(cur.attrs)] = ValOfFirst(cur.attrs, is_bitmask)

\* C16 as amended: when an entry repeats an attribute key, the last
\* occurrence of each key determines the entry's key and value (the entry is
\* wide exactly when its last type attribute is "ull").
C16_LastSeenWins ==
  (Processed /\ HasRepeatedKey(cur.attrs))
    => /\ KeyOfLast(cur.attrs) \in DOMAIN enums
       /\ enums[KeyOfLast(cur.attrs)] = ValOfLast(cur.attrs, is_bitmask)

\* An entry with two different names was processed into the table.
C16_Witness ==
  /\ Processed
  /\ Cardinality(Occurrences(cur.attrs, "name")) > 1
  /\ FirstOf(cur.attrs, "name") # LastOf(cur.attrs, "name")
  /\ KeyOfLast(cur.attrs) \in DOMAIN enums \ DOMAIN enums0

\* C17: the variant is part of value equality.  An entry that resolves to
\* the number the table holds for its key, but under the other of the
\* variants Enum and Bitmask, makes the fold panic with "key overwrite"; it is
\* not skipped as a re-declaration.
C17_VariantConflict ==
  [][ (/\ PulledEnum /\ WellFormed(cur', is_bitmask)
       /\ EntryKey(cur') \in DOMAIN enums
       /\ enums[EntryKey(cur')].num = EntryVal(cur', is_bitmask).num
       /\ enums[EntryKey(cur')].tag # EntryVal(cur', is_bitmask).tag)
      => /\ pc' = "panic"
         /\ panic'.msg = "key overwrite"
         /\ panic'.old = enums[EntryKey(cur')]
         /\ panic'.new = EntryVal(cur', is_bitmask)
         /\ enums' = enums ]_vars

\* A key an earlier fold stored as Bitmask(n) or Enum(n) met the same number
\* under the other variant.
C17_Witness ==
  /\ pc = "panic"
  /\ panic.msg = "key overwrite"
  /\ panic.old.num = panic.new.num
  /\ {panic.old.tag, panic.new.tag} = {"Enum", "Bitmask"}
  /\ panic.key \in DOMAIN enums0

\* C18: no rollback.  The step in which a running fold fails (a panic of any
\* kind) or ends early (None at the end of the stream) changes neither the
\* table nor the group: both keep what the earlier events of the fold, and
\* the folds before it, put there.
C18_NoRollback ==
  [][ (pc = "running" /\ pc' \in {"panic", "None"})
      => (enums' = enums /\ group' = group) ]_vars

\* A fold that had inserted into the table and the group panicked on an
\* unparsable number.
C18_Witness ==
  /\ pc = "panic"
  /\ panic.msg \in {"unwrap on Err", "slice index"}
  /\ DOMAIN enums # DOMAIN enums0
  /\ group # group0

\* C19: group/table consistency.  In a fold whose accumulator held only
\* names of table keys when it was called, every name in the accumulator is
\* the name of a key of the table, in every state during and after the fold;
\* the steps of a fold only add keys to the table and names to the
\* accumulator, and a fold called without an accumulator leaves the caller's
\* set as it was.
KeyNames(tbl) == { k.name : k \in DOMAIN tbl }
C19_GroupTableConsistency ==
  /\ []((pc # "idle" /\ hasGroup /\ group0 \subseteq KeyNames(enums0))
           => group \subseteq KeyNames(enums))
  /\ [][ pc = "running"
         => /\ DOMAIN enums \subseteq DOMAIN enums'
            /\ group \subseteq group'
            /\ ~hasGroup => group' = group ]_vars

\* A fold grew an accumulator that came with a name of the table.
C19_Witness ==
  /\ pc = "running" /\ hasGroup
  /\ group0 # {}
  /\ group0 \subseteq KeyNames(enums0)
  /\ group # group0

\* ------------------------------------------------ reading numbers, anew
\* What a text denotes in base 16 and base 10, written down without the
\* accumulator of from_str_radix: by the position of each digit.
HexLower == <<"0", "1", "2", "3", "4", "5", "6", "7", "8", "9", "a", "b", "c", "d", "e", "f">>
HexUpper == <<"0", "1", "2", "3", "4", "5", "6", "7", "8", "9", "A", "B", "C", "D", "E", "F">>
IsHexChar(c) == \E i \in 1..16 : HexLower[i] = c \/ HexUpper[i] = c
HexOf(c) == (CHOOSE i \in 1..16 : HexLower[i] = c \/ HexUpper[i] = c) - 1
IsHexText(s) == Len(s) > 0 /\ \A i \in 1..Len(s) : IsHexChar(s[i])
IsDecText(s) == Len(s) > 0 /\ \A i \in 1..Len(s) : \E j \in 1..10 : HexLower[j] = s[i]

\* The hex digit at position i counted from the right (1 is the last), 0
\* beyond the left end.
HexAt(s, i) == IF i <= Len(s) THEN HexOf(s[Len(s) + 1 - i]) ELSE 0
\* The text fits n limbs: every digit left of the last 4n is 0.
FitsHex(s, n) == \A i \in 1..Len(s) : i > 4 * n => HexAt(s, i) = 0
\* Limb j of n, most significant first: four hex digits.
HexLimbs(s, n) ==
  [j \in 1..n |->
     LET b == 4 * (n - j)
     IN  HexAt(s, b + 4) * 4096 + HexAt(s, b + 3) * 256 + HexAt(s, b + 2) * 16
           + HexAt(s, b + 1)]

\* A decimal text of at most 10 digits, split as a * 10^4 + b.
RECURSIVE DecNat(_)
DecNat(s) == IF Len(s) = 0 THEN 0
             ELSE DecNat(SubSeq(s, 1, Len(s) - 1)) * 10 + HexOf(s[Len(s)])
DecHead(s) == IF Len(s) <= 4 THEN 0 ELSE DecNat(SubSeq(s, 1, Len(s) - 4))
DecTail(s) == IF Len(s) <= 4 THEN DecNat(s) ELSE DecNat(SubSeq(s, Len(s) - 3, Len(s)))
DecLow(s) == (DecHead(s) % LimbBase) * 10000 + DecTail(s)
DecHigh(s) == (DecHead(s) \div LimbBase) * 10000 + DecLow(s) \div LimbBase
DecFits32(s) == DecHigh(s) < LimbBase
DecLimbs(s) == <<DecHigh(s), DecLow(s) % LimbBase>>

\* r is -m modulo 2^32, for two-limb r and m.
IsNegation32(r, m) ==
  /\ (r[2] + m[2]) % LimbBase = 0
  /\ (r[1] + m[1] + (r[2] + m[2]) \div LimbBase) % LimbBase = 0

\* The entry cur was handled by the "enum" arm: resolved, or panicked.
Handled == pc \in {"running", "panic"} /\ cur.kind = "EmptyTag" /\ cur.name = "enum"
CurText == LastOf(cur.attrs, "value")
CurWide == Occurrences(cur.attrs, "type") # {} /\ LastOf(cur.attrs, "type") = T_ull
CurRest == SubSeq(CurText, 3, Len(CurText))
CurKey == [name |-> LastOf(cur.attrs, "name"), api |-> None]
Tag32 == IF is_bitmask THEN "Bitmask" ELSE "Enum"
HasHexMarker(s) == \E i \in 1..Len(s) : s[i] \in {"x", "X"}
HasMinus(s) == \E i \in 1..Len(s) : s[i] = "-"

\* C11: wide values take precedence.  An entry whose type is "ull" never
\* resolves to Enum or Bitmask, and when the text after its first two
\* characters is hex digits that fit 64 bits it resolves to ULL of those
\* digits read in base 16, whatever is_bitmask and wherever the type
\* attribute stands; an entry without that type never resolves to ULL.
C11_WidePrecedence ==
  Handled =>
    /\ (CurWide /\ pc = "running") => enums[CurKey].tag = "ULL"
    /\ (CurWide /\ Len(CurText) >= 2 /\ IsHexText(CurRest) /\ FitsHex(CurRest, 4))
         => (pc = "running" /\ enums[CurKey] = [tag |-> "ULL", num |-> HexLimbs(CurRest, 4)])
    /\ (~CurWide /\ pc = "running") => enums[CurKey].tag # "ULL"

\* In a bitmask scope, an entry whose type "ull" came before its value text
\* "0x..." resolved to a wide value above 32 bits.
C11_Witness ==
  /\ Handled /\ pc = "running" /\ is_bitmask
  /\ CurWide /\ cur.attrs[1][1] = "type"
  /\ HasHexMarker(CurText)
  /\ enums[CurKey].tag = "ULL"
  /\ enums[CurKey].num[1] > 0

\* C12: hex values.  A value text "0x" followed by hex digits that fit 32
\* bits, on an entry that is not wide, resolves to those digits read in base
\* 16, as Bitmask when is_bitmask is set and as Enum otherwise; and a text
\* with a hex marker is read by the hex branch also when it has a minus sign
\* or would be decimal without the marker.
CurHexDigits == IsHexText(CurRest) /\ FitsHex(CurRest, 2)
C12_HexValue ==
  (Handled /\ ~CurWide /\ Len(CurText) >= 2 /\ CurHexDigits)
    => /\ (CurText[1] = "0" /\ CurText[2] = "x")
            => /\ pc = "running"
               /\ enums[CurKey] = [tag |-> Tag32, num |-> HexLimbs(CurRest, 2)]
       /\ HasHexMarker(CurText)
            => /\ pc = "running"
               /\ enums[CurKey] = [tag |-> Tag32, num |-> HexLimbs(CurRest, 2)]

\* "0xFFFFFFFF" was resolved in a bitmask scope.
C12_Witness ==
  /\ Handled /\ pc = "running" /\ is_bitmask /\ ~CurWide
  /\ Len(CurText) = 10 /\ CurText[1] = "0" /\ CurText[2] = "x"
  /\ enums[CurKey] = [tag |-> "Bitmask", num |-> <<LimbBase - 1, LimbBase - 1>>]

\* C13: decimal values.  A value text of decimal digits only (no sign, no
\* hex marker; at most 10 digits here) that fits 32 bits, on an entry that is
\* not wide, resolves to the text read in base 10: Enum(v) when is_bitmask is
\* false, Bitmask(v) when it is true, with the same v.
C13_DecimalValue ==
  (Handled /\ ~CurWide /\ IsDecText(CurText) /\ Len(CurText) <= 10 /\ DecFits32(CurText))
    => /\ pc = "running"
       /\ enums[CurKey].num = DecLimbs(CurText)
       /\ is_bitmask => enums[CurKey].tag = "Bitmask"
       /\ ~is_bitmask => enums[CurKey].tag = "Enum"

\* "4294967295" was resolved in a bitmask scope.
C13_Witness ==
  /\ Handled /\ pc = "running" /\ is_bitmask /\ ~CurWide
  /\ IsDecText(CurText) /\ Len(CurText) = 10
  /\ enums[CurKey] = [tag |-> "Bitmask", num |-> <<LimbBase - 1, LimbBase - 1>>]

\* C14: negative values.  A value text with a minus sign and no hex marker,
\* on an entry that is not wide, is parsed as an i32 (in base 16, as the
\* source does): for a text "-" followed by base-16 digits of magnitude m at
\* most 2^31, the result is -m modulo 2^32, as Bitmask or Enum by
\* is_bitmask; "-1" yields 0xFFFFFFFF.
CurMagnitude == HexLimbs(Tail(CurText), 2)
CurIsI32 ==
  /\ Len(CurText) >= 2 /\ CurText[1] = "-"
  /\ IsHexText(Tail(CurText)) /\ FitsHex(Tail(CurText), 2)
  /\ (CurMagnitude[1] < LimbBase \div 2 \/ CurMagnitude = <<LimbBase \div 2, 0>>)
C14_NegativeValue ==
  (Handled /\ ~CurWide /\ HasMinus(CurText) /\ ~HasHexMarker(CurText) /\ CurIsI32)
    => /\ pc = "running"
       /\ enums[CurKey].tag = Tag32
       /\ IsNegation32(enums[CurKey].num, CurMagnitude)
       /\ CurText = <<"-", "1">> => enums[CurKey].num = <<LimbBase - 1, LimbBase - 1>>

\* "-10" was resolved: in base 16 it is -16, 0xFFFFFFF0.
C14_Witness ==
  /\ Handled /\ pc = "running" /\ ~CurWide
  /\ CurText = <<"-", "1", "0">>
  /\ enums[CurKey].num = <<LimbBase - 1, LimbBase - 16>>

\* C15: rendering.  The alternate form ("strip") renders the name without
\* exactly its first 3 characters, the plain form renders it whole; the
\* alternate form of a name shorter than 3 characters panics and writes no
\* declaration, truncated or other.  The identifier of a declaration is what
\* stands between "pub const " and the first ":".
FirstColon(text) == CHOOSE i \in 1..Len(text) : text[i] = ":" /\ \A j \in 1..(i - 1) : text[j] # ":"
Identifier(text) == [i \in 1..(FirstColon(text) - 11) |-> text[i + 10]]
Stripped(name) == [i \in 1..(Len(name) - 3) |-> name[i + 3]]
C15_StripPrefix ==
  out.done =>
    /\ ~out.alternate => (out.panic = "" /\ Identifier(out.text) = out.key.name)
    /\ (out.alternate /\ Len(out.key.name) >= 3)
         => (out.panic = "" /\ Identifier(out.text) = Stripped(out.key.name))
    /\ (out.alternate /\ Len(out.key.name) < 3)
         => (out.panic # "" /\ out.text = <<>>)

\* The alternate form of the two-character name "GL" was asked for, and
\* panicked.
C15_Witness ==
  /\ out.done /\ out.alternate
  /\ out.key.name = GL
  /\ out.panic = "slice index"

====
